---- MODULE Spec2Model ----
(***************************************************************************)
(* Cluster-expansion Monte Carlo engine of Cluster_Expansion.py.           *)
(*                                                                         *)
(* The crystal provider (onsager) is instantiated by a one-dimensional     *)
(* chain with one sublattice: a ClusterSite is its integer lattice         *)
(* translation R, the supercell is a ring of Nsites cells                  *)
(* (sup.index(R, ci)[0] = R mod Nsites, sup.ciR(i) = i) and the point      *)
(* group is {identity, inversion}.  The geometric cluster expansion holds  *)
(* the single-site cluster and the nearest-neighbour pair.                 *)
(*                                                                         *)
(* Python lists and tuples are sequences (index k of the source is index   *)
(* k+1 here); numpy arrays are functions on 0..n-1 so that the source's    *)
(* index arithmetic, the -1 padding and numpy's negative indexing are      *)
(* kept.  Energies are integers and beta is counted in units of ln 2, so   *)
(* exp(-beta*delE) = 2^(-beta*delE) is an exact rational.                  *)
(***************************************************************************)
EXTENDS Integers, Sequences, FiniteSets, TLC

\* ---------------------------------------------------------------- bounds
\* largest ring (number of supercell sites)
MaxSites == 3
\* number of species, the last one being the vacancy (len(mobCountList))
NSpec == 2
\* largest NswapTrials of a sweep
MaxTrials == 2
\* largest beta, in units of ln 2
MaxBeta == 1
\* the random numbers of a sweep are the multiples of 1/UDen in [0, 1)
UDen == 2
\* largest |R| of a site handed to ClusterSpecies directly
MaxR == 1
\* longest species list or site list handed to ClusterSpecies directly
MaxArgLen == 3
\* number of hash seeds of the interpreter (PYTHONHASHSEED)
MaxSeed == 2
\* largest ring of the transport expansion
MaxTransportSites == 4

\* --------------------------------------------------------------- helpers
RECURSIVE Pow(_, _)
Pow(b, e) == IF e = 0 THEN 1 ELSE b * Pow(b, e - 1)

RECURSIVE SumTo(_, _)
SumTo(s, k) == IF k = 0 THEN 0 ELSE s[k] + SumTo(s, k - 1)

SumSeq(s) == SumTo(s, Len(s))

Range(s) == {s[k] : k \in DOMAIN s}

\* a list comprehension: the function on 1..n as a tuple of its values
List(f) == SubSeq(f, 1, Len(f))

Reverse(s) == List([k \in 1..Len(s) |-> s[Len(s) + 1 - k]])

\* ------------------------------------------------------ crystal provider
\* sup.index(R, ci)[0]: periodic wraparound of a lattice translation
SupIndex(n, R) == R % n

\* crys.G: the group operations, identity first
G == <<1, -1>>

\* ClusterSite.g(crys, g)
SiteG(R, g) == g * R

\* self.clusexp: a list of sets of geometric clusters (tuples of sites)
clusexp == << << <<0>> >>, << <<0, 1>> >> >>

\* self.maxOrder
maxOrder == 2

\* -------------------------------------------------------- ClusterSpecies
\* ClusterSpecies.__init__: the translation of the (floor-divided) centroid
\* is subtracted from every site
\* integer division that rounds toward zero
TruncDiv(a, n) == IF a >= 0 THEN a \div n ELSE -((-a) \div n)

\* a constructor whose centroid is rounded toward zero
ClusterSpeciesTrunc(specList, siteList) ==
    LET Rtrans == TruncDiv(SumSeq(siteList), Len(siteList))
    IN  [specList   |-> specList,
         siteList   |-> siteList,
         transPairs |-> List([k \in 1..Len(siteList) |->
                            <<siteList[k] - Rtrans, specList[k]>>])]

\* a constructor that subtracts the sum of the translations, not their mean
ClusterSpeciesSum(specList, siteList) ==
    LET Rtrans == SumSeq(siteList)
    IN  [specList   |-> specList,
         siteList   |-> siteList,
         transPairs |-> List([k \in 1..Len(siteList) |->
                            <<siteList[k] - Rtrans, specList[k]>>])]

\* a constructor check that does not look at the type of the sites
NoTypeCheck(specList, siteList, isSite) ==
    IF Len(specList) # Len(siteList) THEN "ValueError"
    ELSE IF Len(siteList) = 0 THEN "ZeroDivisionError"
    ELSE "none"

\* ClusterSpecies.__init__, the statements that raise: the length test, the
\* isinstance test (isSite[k] is isinstance(siteList[k], ClusterSite)) and
\* the division by len(siteList)
ConstructionError(specList, siteList, isSite) ==
    IF Len(specList) # Len(siteList) THEN "ValueError"
    ELSE IF \E k \in DOMAIN siteList : ~isSite[k] THEN "TypeError"
    ELSE IF Len(siteList) = 0 THEN "ZeroDivisionError"
    ELSE "none"

ClusterSpecies(specList, siteList) ==
    LET Rtrans == SumSeq(siteList) \div Len(siteList)
    IN  [specList   |-> specList,
         siteList   |-> siteList,
         transPairs |-> List([k \in 1..Len(siteList) |->
                            <<siteList[k] - Rtrans, specList[k]>>])]

\* self.SiteSpecs = set(self.transPairs)
SiteSpecs(cl) == Range(cl.transPairs)

\* ClusterSpecies.__eq__
ClusterEq(x, y) == SiteSpecs(x) = SiteSpecs(y)

\* hash((site, spec)): the interpreter's hash of the pair, a function of the
\* pair and of the hash seed that tells different pairs apart
PairHash(pair, seed) == seed * (pair[1] * NSpec + pair[2]) + 1

RECURSIVE ProdTo(_, _)
ProdTo(s, k) == IF k = 0 THEN 1 ELSE s[k] * ProdTo(s, k - 1)

\* self.__hashcache__ (returned by ClusterSpecies.__hash__): the product plus
\* the sum of the pair hashes over the list transPairs.  The values of the
\* model stay far inside the 64 bits of np.prod.
hashcache(cl, seed) ==
    LET hashes == List([k \in 1..Len(cl.transPairs) |->
                          PairHash(cl.transPairs[k], seed)])
    IN  ProdTo(hashes, Len(hashes)) + SumSeq(hashes)

\* ClusterSpecies.g
ClusterG(cl, g) ==
    ClusterSpecies(cl.specList,
                   List([k \in 1..Len(cl.siteList) |-> SiteG(cl.siteList[k], g)]))

\* Iterating a Python set: the elements in insertion order without repeats
\* (equal elements keep the first one inserted) ...
RECURSIVE DedupPairs(_)
DedupPairs(s) ==
    IF Len(s) = 0 THEN << >>
    ELSE LET front == DedupPairs(SubSeq(s, 1, Len(s) - 1))
         IN  IF s[Len(s)] \in Range(front) THEN front ELSE Append(front, s[Len(s)])

\* a list of clusters that keeps its repeats
KeepRepeats(s) == s

RECURSIVE DedupClusters(_)
DedupClusters(s) ==
    IF Len(s) = 0 THEN << >>
    ELSE LET front == DedupClusters(SubSeq(s, 1, Len(s) - 1))
             last  == s[Len(s)]
         IN  IF \E k \in DOMAIN front : ClusterEq(front[k], last)
             THEN front ELSE Append(front, last)

\* ... or in the reverse order: the order of a set is fixed by the hashes of
\* its elements, which the source does not control (rev chooses it)
SetOrder(s, rev) == IF rev THEN Reverse(s) ELSE s

\* for site, spec in cl.SiteSpecs
IterSiteSpecs(cl, rev) == SetOrder(DedupPairs(cl.transPairs), rev)

\* -------------------------------------------------------- recalcClusters
\* itertools.product(self.mobList, repeat=n): tuple number j, lexicographic
SiteOcc(n, j) == List([k \in 1..n |-> (j \div Pow(NSpec, n - k)) % NSpec])

\* a budget test that lets every assignment through
NeverOverBudget(siteOcc, mobCountList) == FALSE

\* any(j > self.mobCountList[i] for i, j in mobcount.items())
OverBudget(siteOcc, mobCountList) ==
    \E sp \in 0..(NSpec - 1) :
        Cardinality({k \in DOMAIN siteOcc : siteOcc[k] = sp}) > mobCountList[sp]

\* an orbit that holds the cluster alone, without its images
SymListAlone(cl, rev) == <<cl>>

\* list(set([ClustSpec.g(self.crys, g) for g in self.crys.G]))
SymList(cl, rev) ==
    SetOrder(DedupClusters(List([k \in 1..Len(G) |-> ClusterG(cl, G[k])])), rev)

\* Every loop of the source is a recursive operator on the loop's variables,
\* the loop index among them.

\* the loop over the species assignments of one geometric cluster
\* (lines 102-118); st = [j, allClusts (as SiteSpecs sets), symClusterList]
RECURSIVE OccLoop(_, _, _, _)
OccLoop(sites, mobCountList, rev, st) ==
    IF st.j >= Pow(NSpec, Len(sites)) THEN st
    ELSE LET siteOcc   == SiteOcc(Len(sites), st.j)
             ClustSpec == ClusterSpecies(siteOcc, sites)
             newList   == SymList(ClustSpec, rev)
             skip      == \/ SiteSpecs(ClustSpec) \in st.allClusts
                          \/ OverBudget(siteOcc, mobCountList)
         IN  OccLoop(sites, mobCountList, rev,
                 [j |-> st.j + 1,
                  allClusts |->
                      IF skip THEN st.allClusts
                      ELSE st.allClusts \cup {SiteSpecs(newList[k]) : k \in DOMAIN newList},
                  symClusterList |->
                      IF skip THEN st.symClusterList
                      ELSE Append(st.symClusterList, newList)])

\* for clust in list(clSet); st = [c, allClusts, symClusterList]
RECURSIVE ClustLoop(_, _, _, _)
ClustLoop(clSet, mobCountList, rev, st) ==
    IF st.c > Len(clSet) THEN st
    ELSE LET r == OccLoop(clSet[st.c], mobCountList, rev,
                          [j |-> 0, allClusts |-> st.allClusts,
                           symClusterList |-> st.symClusterList])
         IN  ClustLoop(clSet, mobCountList, rev,
                       [c |-> st.c + 1, allClusts |-> r.allClusts,
                        symClusterList |-> r.symClusterList])

\* for clSet in self.clusexp; st = [t, allClusts, symClusterList]
RECURSIVE ClSetLoop(_, _, _)
ClSetLoop(mobCountList, rev, st) ==
    IF st.t > Len(clusexp) THEN st
    ELSE LET r == ClustLoop(clusexp[st.t], mobCountList, rev,
                            [c |-> 1, allClusts |-> st.allClusts,
                             symClusterList |-> st.symClusterList])
         IN  ClSetLoop(mobCountList, rev,
                       [t |-> st.t + 1, allClusts |-> r.allClusts,
                        symClusterList |-> r.symClusterList])

recalcClusters(mobCountList, rev) ==
    ClSetLoop(mobCountList, rev,
              [t |-> 1, allClusts |-> {}, symClusterList |-> << >>]).symClusterList

\* ---------------------------------------------- generateSiteSpecInteracts
\* the loop over the members of one cluster (lines 375-385);
\* st = [m, seen (interactionSupIndSet), list (interactionList)]
RECURSIVE MemberLoop(_, _, _, _, _, _)
MemberLoop(n, clSiteR, sp, cl, rev, st) ==
    LET members == IterSiteSpecs(cl, rev)
    IN  IF st.m > Len(members) THEN st
        ELSE LET site   == members[st.m][1]
                 spec   == members[st.m][2]
                 Rtrans == clSiteR - site
                 interaction == List([k \in 1..Len(members) |->
                                    <<members[k][1] + Rtrans, members[k][2]>>])
                 interactSupInd == List([k \in 1..Len(members) |->
                                    <<SupIndex(n, interaction[k][1]), interaction[k][2]>>])
                 skip == (sp # spec) \/ (interactSupInd \in st.seen)
             IN  MemberLoop(n, clSiteR, sp, cl, rev,
                     [m    |-> st.m + 1,
                      seen |-> IF skip THEN st.seen ELSE st.seen \cup {interactSupInd},
                      list |-> IF skip THEN st.list
                               ELSE Append(st.list, [interaction |-> interaction,
                                                     cl |-> cl, Rtrans |-> Rtrans])])

\* for cl in clList; st = [c, seen, list]
RECURSIVE ClLoop(_, _, _, _, _, _)
ClLoop(n, clSiteR, sp, clList, rev, st) ==
    IF st.c > Len(clList) THEN st
    ELSE LET r == MemberLoop(n, clSiteR, sp, clList[st.c], rev,
                             [m |-> 1, seen |-> st.seen, list |-> st.list])
         IN  ClLoop(n, clSiteR, sp, clList, rev,
                    [c |-> st.c + 1, seen |-> r.seen, list |-> r.list])

\* for clListInd, clList in enumerate(self.SpecClusters); st = [l, seen, list]
RECURSIVE ClListLoop(_, _, _, _, _, _)
ClListLoop(n, clSiteR, sp, SpecClusters, rev, st) ==
    IF st.l > Len(SpecClusters) THEN st
    ELSE LET r == ClLoop(n, clSiteR, sp, SpecClusters[st.l], rev,
                         [c |-> 1, seen |-> st.seen, list |-> st.list])
         IN  ClListLoop(n, clSiteR, sp, SpecClusters, rev,
                        [l |-> st.l + 1, seen |-> r.seen, list |-> r.list])

\* the loops over the sites and the species (lines 364-388), flattened:
\* iteration q (from 0) is site q \div NSpec with species q % NSpec;
\* st = [q, seen, dict (SiteSpecinteractList, in insertion order)]
RECURSIVE SiteSpecLoop(_, _, _, _)
SiteSpecLoop(n, SpecClusters, rev, st) ==
    IF st.q >= n * NSpec THEN st
    ELSE LET siteInd == st.q \div NSpec
             sp      == st.q % NSpec
             r       == ClListLoop(n, siteInd, sp, SpecClusters, rev,
                                   [l |-> 1, seen |-> st.seen, list |-> << >>])
         IN  SiteSpecLoop(n, SpecClusters, rev,
                 [q    |-> st.q + 1,
                  seen |-> r.seen,
                  dict |-> Append(st.dict, [key |-> <<siteInd, sp>>, list |-> r.list])])

\* the length of the last list instead of the longest
LastLen(dict, d) == IF d = 0 THEN 0 ELSE Len(dict[d].list)

\* max(InteractCounts)
RECURSIVE MaxLen(_, _)
MaxLen(dict, d) ==
    IF d = 0 THEN 0
    ELSE LET m == MaxLen(dict, d - 1)
         IN  IF Len(dict[d].list) > m THEN Len(dict[d].list) ELSE m

generateSiteSpecInteracts(n, SpecClusters, rev) ==
    LET d == SiteSpecLoop(n, SpecClusters, rev,
                          [q |-> 0, seen |-> {}, dict |-> << >>]).dict
    IN  [SiteSpecInteractions |-> d, maxInteractCount |-> MaxLen(d, Len(d))]

\* --------------------------------------------------- indexClustertoSpecClus
\* self.clust2SpecClus[clust][0]: the orbit that lists the cluster (the last
\* one written wins)
clust2SpecClus(SpecClusters, cl) ==
    LET hits == {l \in DOMAIN SpecClusters :
                    \E c \in DOMAIN SpecClusters[l] : ClusterEq(SpecClusters[l][c], cl)}
    IN  (CHOOSE l \in hits : \A l2 \in hits : l2 <= l) - 1

\* --------------------------------------------------- makeJitInteractionsData
\* InteractionIndexDict[interaction], or -1 when the interaction is not a key
InteractionIndex(Index2Interaction, interaction) ==
    IF \E k \in DOMAIN Index2Interaction : Index2Interaction[k] = interaction
    THEN (CHOOSE k \in DOMAIN Index2Interaction : Index2Interaction[k] = interaction) - 1
    ELSE -1

\* the loop over the interactions of one key (lines 418-439);
\* st = [interactInd, Index2Interaction, RepClus, SiteSpecInterArray]
RECURSIVE InfoLoop(_, _, _)
InfoLoop(key, list, st) ==
    IF st.interactInd >= Len(list) THEN st
    ELSE LET interaction == list[st.interactInd + 1].interaction
             known == InteractionIndex(st.Index2Interaction, interaction)
             count == Len(st.Index2Interaction)
         IN  InfoLoop(key, list,
                 [interactInd |-> st.interactInd + 1,
                  Index2Interaction |->
                      IF known >= 0 THEN st.Index2Interaction
                      ELSE Append(st.Index2Interaction, interaction),
                  RepClus |->
                      IF known >= 0 THEN st.RepClus
                      ELSE Append(st.RepClus, list[st.interactInd + 1].cl),
                  SiteSpecInterArray |->
                      [st.SiteSpecInterArray EXCEPT ![key[1]][key[2]][st.interactInd] =
                          IF known >= 0 THEN known ELSE count]])

\* for key, interactInfoList in self.SiteSpecInteractions.items();
\* st = [d, Index2Interaction, RepClus, SiteSpecInterArray]
RECURSIVE KeyLoop(_, _)
KeyLoop(dict, st) ==
    IF st.d > Len(dict) THEN st
    ELSE LET r == InfoLoop(dict[st.d].key, dict[st.d].list,
                           [interactInd |-> 0,
                            Index2Interaction |-> st.Index2Interaction,
                            RepClus |-> st.RepClus,
                            SiteSpecInterArray |-> st.SiteSpecInterArray])
         IN  KeyLoop(dict, [d |-> st.d + 1,
                            Index2Interaction |-> r.Index2Interaction,
                            RepClus |-> r.RepClus,
                            SiteSpecInterArray |-> r.SiteSpecInterArray])

\* the arrays makeJitInteractionsData returns for the Monte Carlo sampler.
\* Interaction2En[idx] = Energies[self.clust2SpecClus[repClus][0]] (line 475)
makeJitInteractionsData(n, SpecClusters, SiteSpecInteractions, maxInteractCount, Energies) ==
    LET idx == KeyLoop(SiteSpecInteractions,
                   [d |-> 1,
                    Index2Interaction  |-> << >>,
                    RepClus            |-> << >>,
                    SiteSpecInterArray |->
                        [s \in 0..(n - 1) |-> [sp \in 0..(NSpec - 1) |->
                            [k \in 0..(maxInteractCount - 1) |-> -1]]]])
        numInteracts == Len(idx.Index2Interaction)
        ids == 0..(numInteracts - 1)
    IN  [numSitesInteracts |-> [i \in ids |-> Len(idx.Index2Interaction[i + 1])],
         SupSitesInteracts |->
             [i \in ids |-> [k \in 0..(maxOrder - 1) |->
                 IF k < Len(idx.Index2Interaction[i + 1])
                 THEN SupIndex(n, idx.Index2Interaction[i + 1][k + 1][1]) ELSE -1]],
         SpecOnInteractSites |->
             [i \in ids |-> [k \in 0..(maxOrder - 1) |->
                 IF k < Len(idx.Index2Interaction[i + 1])
                 THEN idx.Index2Interaction[i + 1][k + 1][2] ELSE -1]],
         Interaction2En |->
             [i \in ids |-> Energies[clust2SpecClus(SpecClusters, idx.RepClus[i + 1])]],
         numInteractsSiteSpec |->
             [s \in 0..(n - 1) |-> [sp \in 0..(NSpec - 1) |->
                 Len(SiteSpecInteractions[s * NSpec + sp + 1].list)]],
         SiteSpecInterArray |-> idx.SiteSpecInterArray,
         Index2InteractionDict |-> idx.Index2Interaction]

\* -------------------------------------------------------- MCSampler.__init__
\* a member test that counts the matching sites
OnSite(occSpec, interSpec) == occSpec = interSpec

\* mobOcc[interSite] != interSpec (line 593)
OffSite(occSpec, interSpec) == occSpec # interSpec

\* the loop over the sites of one interaction (lines 590-594)
RECURSIVE CountOffSites(_, _, _, _)
CountOffSites(cat, mobOcc, interactIdx, intSiteind) ==
    IF intSiteind >= cat.numSitesInteracts[interactIdx] THEN 0
    ELSE LET interSite == cat.SupSitesInteracts[interactIdx][intSiteind]
             interSpec == cat.SpecOnInteractSites[interactIdx][intSiteind]
         IN  (IF OffSite(mobOcc[interSite], interSpec) THEN 1 ELSE 0)
             + CountOffSites(cat, mobOcc, interactIdx, intSiteind + 1)

InitOffSiteCount(cat, mobOcc) ==
    [interactIdx \in DOMAIN cat.numSitesInteracts |->
        CountOffSites(cat, mobOcc, interactIdx, 0)]

\* -------------------------------------------------------------- makeMCsweep
\* numpy indexing of a one-dimensional array: a negative index counts from
\* the end
NpAt(arr, i) == arr[IF i < 0 THEN i + Cardinality(DOMAIN arr) ELSE i]

\* a switch-off test that reads the array being updated
IsOnNew(OffSiteCountOld, OffSiteCountNew, i) == OffSiteCountNew[i] = 0

\* the test that an interaction is on before it is switched off
\* (lines 623 and 628)
IsOn(OffSiteCountOld, OffSiteCountNew, i) == OffSiteCountOld[i] = 0

\* OffSiteCountNew[i] += 1 (lines 625 and 630)
SwitchOff(OffSiteCountNew, i) == [OffSiteCountNew EXCEPT ![i] = @ + 1]

\* a switch-on step that takes two off the count
SwitchOnTwice(OffSiteCountNew, i) == [OffSiteCountNew EXCEPT ![i] = @ - 2]

\* OffSiteCountNew[i] -= 1 (lines 634 and 639)
SwitchOn(OffSiteCountNew, i) == [OffSiteCountNew EXCEPT ![i] = @ - 1]

\* a switch-off loop (lines 621-625 for siteA, 627-630 for siteB);
\* st = [interIdx, delE, New (OffSiteCountNew)]
RECURSIVE TurnOffLoop(_, _, _, _, _, _)
TurnOffLoop(cat, Energies, Old, site, sp, st) ==
    IF st.interIdx >= cat.numInteractsSiteSpec[site][sp] THEN st
    ELSE LET i == cat.SiteSpecInterArray[site][sp][st.interIdx]
         IN  TurnOffLoop(cat, Energies, Old, site, sp,
                 [interIdx |-> st.interIdx + 1,
                  delE |-> IF IsOn(Old, st.New, i)
                           THEN st.delE - NpAt(Energies, NpAt(cat.Interaction2En, i))
                           ELSE st.delE,
                  New  |-> SwitchOff(st.New, i)])

\* the interaction whose energy a switch-on loop adds (lines 636 and 641):
\* both loops read the list of (siteB, mobOcc[siteB])
OnEnergyInteraction(cat, site, sp, siteB, specB, interIdx) ==
    cat.SiteSpecInterArray[siteB][specB][interIdx]

\* a switch-on loop (lines 633-636 for siteA, 638-641 for siteB)
RECURSIVE TurnOnLoop(_, _, _, _, _, _, _)
TurnOnLoop(cat, Energies, site, sp, siteB, specB, st) ==
    IF st.interIdx >= cat.numInteractsSiteSpec[site][sp] THEN st
    ELSE LET i    == cat.SiteSpecInterArray[site][sp][st.interIdx]
             New2 == SwitchOn(st.New, i)
             e    == OnEnergyInteraction(cat, site, sp, siteB, specB, st.interIdx)
         IN  TurnOnLoop(cat, Energies, site, sp, siteB, specB,
                 [interIdx |-> st.interIdx + 1,
                  delE |-> IF New2[i] = 0
                           THEN st.delE + NpAt(Energies, NpAt(cat.Interaction2En, e))
                           ELSE st.delE,
                  New  |-> New2])

\* 2^(-n) > k/UDen, in integers (no power larger than UDen is formed)
RECURSIVE ExpGreater(_, _)
ExpGreater(n, k) ==
    IF n <= 0 THEN TRUE
    ELSE IF 2 * k >= UDen THEN FALSE
    ELSE ExpGreater(n - 1, 2 * k)

\* a selection test with >= in place of >
AcceptTestGeq(beta, delE, k) ==
    IF beta * delE <= 0 THEN TRUE
    ELSE LET n == IF beta * delE > UDen THEN UDen + 1 ELSE beta * delE
         IN  k * Pow(2, n) <= UDen

\* np.exp(-beta*delE) > randarr[count] (line 644), randarr[count] = k/UDen
AcceptTest(beta, delE, k) ==
    IF beta * delE <= 0
    THEN (beta * delE < 0) \/ (k < UDen)
    ELSE ExpGreater(beta * delE, k)

\* a swap that loses the species of siteA (no temp)
CopySites(mobOcc, siteA, siteB) == [mobOcc EXCEPT ![siteA] = mobOcc[siteB]]

\* the swap of the two sites (lines 648-650)
SwapSites(mobOcc, siteA, siteB) ==
    [mobOcc EXCEPT ![siteA] = mobOcc[siteB], ![siteB] = mobOcc[siteA]]

\* a rejected trial that keeps the counts of the loops
KeepCounts(OffSiteCountOld, OffSiteCountNew) == OffSiteCountNew

\* OffSiteCountNew after a rejected trial (line 653)
RevertCounts(OffSiteCountOld, OffSiteCountNew) == OffSiteCountOld

\* --------------------------------------------- Transitions.py: KRAExpand
\* A transition-state cluster of the provider is the tuple of the
\* translations of its sites: the two ends of the jump first (clust.sites[0]
\* and clust.sites[1]), then the other sites.  Two are equal when the tuples
\* are equal.
\* cl0.Norder: the number of sites besides the two ends of the jump
TSNorder(clust) == Len(clust) - 2

\* clust.g(self.crys, gop)
TSClusterG(clust, g) == List([k \in 1..Len(clust) |-> SiteG(clust[k], g)])

\* for clList in self.TSClusters: for clust in clList
RECURSIVE Flatten(_)
Flatten(ll) ==
    IF Len(ll) = 0 THEN << >>
    ELSE Flatten(SubSeq(ll, 1, Len(ll) - 1)) \o ll[Len(ll)]

\* (IndA, IndB): the supercell indices of the two ends of the jump
JumpKey(n, clust) == <<SupIndex(n, clust[1]), SupIndex(n, clust[2])>>

\* TransClustersAll[(IndA, IndB)]
TransClustersAll(n, TSClusters, key) ==
    SelectSeq(Flatten(TSClusters), LAMBDA c : JumpKey(n, c) = key)

\* Glist: the operations that keep sup.ciR(key[0]) and sup.ciR(key[1])
TransGlist(key) ==
    SelectSeq(G, LAMBDA g : SiteG(key[1], g) = key[1] /\ SiteG(key[2], g) = key[2])

\* for clust in clustList (lines 61-65); st = [c, newSymList, clusts_done]
RECURSIVE SymLoop(_, _, _, _)
SymLoop(clustList, Glist, rev, st) ==
    IF st.c > Len(clustList) THEN st
    ELSE LET clust == clustList[st.c]
             clusterSetnew ==
                 SetOrder(DedupPairs(List([k \in 1..Len(Glist) |->
                              TSClusterG(clust, Glist[k])])), rev)
         IN  SymLoop(clustList, Glist, rev,
                 IF clust \in st.clusts_done
                 THEN [st EXCEPT !.c = st.c + 1]
                 ELSE [c |-> st.c + 1,
                       newSymList |-> Append(st.newSymList, clusterSetnew),
                       clusts_done |-> st.clusts_done \cup Range(clusterSetnew)])

\* KRAExpand.GroupTransClusters: TransClustersSym
GroupTransClusters(n, TSClusters, rev) ==
    [key \in {JumpKey(n, c) : c \in Range(Flatten(TSClusters))} |->
        SymLoop(TransClustersAll(n, TSClusters, key), TransGlist(key), rev,
                [c |-> 1, newSymList |-> << >>, clusts_done |-> {}]).newSymList]

\* the j-th tuple of itertools.product(mobileSpecs, repeat=cl0.Norder),
\* mobileSpecs being every species but the vacancy
TransSpecs(Norder, j) ==
    List([k \in 1..Norder |-> (j \div Pow(NSpec - 1, Norder - k)) % (NSpec - 1)])

\* any(self.mobCountList[i] < j for i, j in MobNumber.items())
TransOverBudget(tup, mobCountList) ==
    \E sp \in Range(tup) :
        mobCountList[sp] < Cardinality({k \in DOMAIN tup : tup[k] = sp})

\* for tup in Specs (lines 95-100); st = [j, AtomicClusterSymList]
RECURSIVE SpecsLoop(_, _, _)
SpecsLoop(clusterList, mobCountList, st) ==
    IF st.j >= Pow(NSpec - 1, TSNorder(clusterList[1])) THEN st
    ELSE LET tup == TransSpecs(TSNorder(clusterList[1]), st.j)
         IN  SpecsLoop(clusterList, mobCountList,
                 [j |-> st.j + 1,
                  AtomicClusterSymList |->
                      IF TransOverBudget(tup, mobCountList)
                      THEN st.AtomicClusterSymList
                      ELSE Append(st.AtomicClusterSymList,
                                  [tup |-> tup, clusterList |-> clusterList])])

\* for clusterList in clusterSymLists (lines 91-100);
\* st = [l, AtomicClusterSymList]
RECURSIVE ClusterSymLoop(_, _, _)
ClusterSymLoop(clusterSymLists, mobCountList, st) ==
    IF st.l > Len(clusterSymLists) THEN st
    ELSE LET r == SpecsLoop(clusterSymLists[st.l], mobCountList,
                            [j |-> 0, AtomicClusterSymList |-> st.AtomicClusterSymList])
         IN  ClusterSymLoop(clusterSymLists, mobCountList,
                 [l |-> st.l + 1, AtomicClusterSymList |-> r.AtomicClusterSymList])

\* KRAExpand.defineTransSpecies: clusterJumpsSpecies
defineTransSpecies(mobCountList, SymTransClusters) ==
    [ABspecJ \in {<<AB[1], AB[2], specJ>> :
                     AB \in DOMAIN SymTransClusters, specJ \in 0..(NSpec - 2)} |->
        ClusterSymLoop(SymTransClusters[<<ABspecJ[1], ABspecJ[2]>>], mobCountList,
                       [l |-> 1, AtomicClusterSymList |-> << >>]).AtomicClusterSymList]

\* KRAExpand.__init__ on the provider's transition-state clusters
KRAExpand(n, mobCountList, TSClusters, rev) ==
    [Nsites |-> n,
     clusterSpeciesJumps |->
         defineTransSpecies(mobCountList, GroupTransClusters(n, TSClusters, rev))]

\* all(mobOcc[spec, sup.index(site.R, site.ci)[0]] == 1
\*     for spec, site in zip(tup, cluster.sites[2:]))
KRAClusterOn(n, tup, clust, mobOcc) ==
    \A k \in 1..Len(tup) :
        (k <= Len(clust) - 2) => (mobOcc[tup[k]][SupIndex(n, clust[k + 2])] = 1)

\* for cluster in clusterList (lines 132-134); st = [c, DelEKRA]
RECURSIVE KRAClusterLoop(_, _, _, _, _)
KRAClusterLoop(n, entry, mobOcc, coeff, st) ==
    IF st.c > Len(entry.clusterList) THEN st
    ELSE KRAClusterLoop(n, entry, mobOcc, coeff,
             [c |-> st.c + 1,
              DelEKRA |-> IF KRAClusterOn(n, entry.tup, entry.clusterList[st.c], mobOcc)
                          THEN st.DelEKRA + coeff ELSE st.DelEKRA])

\* a group loop that stops at the shorter of the two lists
RECURSIVE KRAGroupLoopZip(_, _, _, _, _)
KRAGroupLoopZip(n, SymClusterlists, mobOcc, KRACoeffs, st) ==
    IF st.interactIdx >= Len(SymClusterlists) \/ st.interactIdx >= Len(KRACoeffs)
    THEN st
    ELSE LET r == KRAClusterLoop(n, SymClusterlists[st.interactIdx + 1], mobOcc,
                                 KRACoeffs[st.interactIdx + 1],
                                 [c |-> 1, DelEKRA |-> st.DelEKRA])
         IN  KRAGroupLoopZip(n, SymClusterlists, mobOcc, KRACoeffs,
                 [interactIdx |-> st.interactIdx + 1, DelEKRA |-> r.DelEKRA])

\* a GetKRA that does not compare the lengths
GetKRAUnchecked(kra, transition, mobOcc, KRACoeffs) ==
    IF transition \notin DOMAIN kra.clusterSpeciesJumps
    THEN [raised |-> "KeyError"]
    ELSE [raised |-> "none",
          DelEKRA |-> KRAGroupLoopZip(kra.Nsites, kra.clusterSpeciesJumps[transition],
                          mobOcc, KRACoeffs,
                          [interactIdx |-> 0, DelEKRA |-> 0]).DelEKRA]

\* for interactIdx, (tup, clusterList) in zip(itertools.count(),
\* SymClusterlists) (lines 131-134); st = [interactIdx, DelEKRA]
RECURSIVE KRAGroupLoop(_, _, _, _, _)
KRAGroupLoop(n, SymClusterlists, mobOcc, KRACoeffs, st) ==
    IF st.interactIdx >= Len(SymClusterlists) THEN st
    ELSE LET r == KRAClusterLoop(n, SymClusterlists[st.interactIdx + 1], mobOcc,
                                 KRACoeffs[st.interactIdx + 1],
                                 [c |-> 1, DelEKRA |-> st.DelEKRA])
         IN  KRAGroupLoop(n, SymClusterlists, mobOcc, KRACoeffs,
                 [interactIdx |-> st.interactIdx + 1, DelEKRA |-> r.DelEKRA])

\* KRAExpand.GetKRA: what the call raises, and the energy it returns when
\* it raises nothing
GetKRA(kra, transition, mobOcc, KRACoeffs) ==
    IF transition \notin DOMAIN kra.clusterSpeciesJumps
    THEN [raised |-> "KeyError"]
    ELSE IF Len(kra.clusterSpeciesJumps[transition]) # Len(KRACoeffs)
    THEN [raised |-> "TypeError"]
    ELSE [raised |-> "none",
          DelEKRA |-> KRAGroupLoop(kra.Nsites, kra.clusterSpeciesJumps[transition],
                          mobOcc, KRACoeffs,
                          [interactIdx |-> 0, DelEKRA |-> 0]).DelEKRA]

\* ------------------------------------- vector basis and jump clusters
\* The chain lies along the first axis of a three-dimensional crystal whose
\* point group is the identity and the inversion: g.cartrot is g times the
\* unit matrix, a vector is a triple.
VecAdd(a, b) == <<a[1] + b[1], a[2] + b[2], a[3] + b[3]>>
VecScale(c, v) == <<c * v[1], c * v[2], c * v[3]>>

\* np.zeros(3)
Zeros3 == <<0, 0, 0>>

\* glist0: the operations that map cl0 on itself (lines 128-131)
glist0(cl0) == SelectSeq(G, LAMBDA g : ClusterEq(ClusterG(cl0, g), cl0))

\* vlist (lines 133-136): the eigenvectors of eigenvalue 1 of the mean of
\* the rotations of glist0, which is the unit matrix (three unit vectors)
\* when glist0 is the identity alone and the zero matrix (none) when it
\* holds the inversion too
vlist(gl) ==
    IF SumSeq(gl) = Len(gl)
    THEN << <<1, 0, 0>>, <<0, 1, 0>>, <<0, 0, 1>> >>
    ELSE << >>

\* for g in self.crys.G (lines 147-152); st = [g, newClustList, newVecList]
RECURSIVE ImageLoop(_, _, _)
ImageLoop(cl0, v, st) ==
    IF st.g > Len(G) THEN st
    ELSE LET cl1 == ClusterG(cl0, G[st.g])
         IN  ImageLoop(cl0, v,
                 IF \E k \in DOMAIN st.newClustList : ClusterEq(st.newClustList[k], cl1)
                 THEN [st EXCEPT !.g = st.g + 1]
                 ELSE [g |-> st.g + 1,
                       newClustList |-> Append(st.newClustList, cl1),
                       newVecList |-> Append(st.newVecList, VecScale(G[st.g], v))])

\* for clList in specClusters (lines 126-155); st = [l, vecClustList,
\* vecVecList]
RECURSIVE VecBasisLoop(_, _)
VecBasisLoop(specClusters, st) ==
    IF st.l > Len(specClusters) THEN st
    ELSE LET clList == specClusters[st.l]
             cl0 == clList[1]
             vl == vlist(glist0(cl0))
             img(v) == ImageLoop(cl0, v, [g |-> 1, newClustList |-> <<cl0>>,
                                          newVecList |-> <<v>>])
         IN  VecBasisLoop(specClusters,
                 IF Len(vl) = 0
                 THEN [l |-> st.l + 1,
                       vecClustList |-> Append(st.vecClustList, clList),
                       vecVecList |-> Append(st.vecVecList,
                                        List([i \in 1..Len(clList) |-> Zeros3]))]
                 ELSE [l |-> st.l + 1,
                       vecClustList |-> st.vecClustList \o
                           List([i \in 1..Len(vl) |-> img(vl[i]).newClustList]),
                       vecVecList |-> st.vecVecList \o
                           List([i \in 1..Len(vl) |-> img(vl[i]).newVecList])])

\* VectorClusterExpansion.genVecClustBasis
genVecClustBasis(specClusters) ==
    LET r == VecBasisLoop(specClusters,
                 [l |-> 1, vecClustList |-> << >>, vecVecList |-> << >>])
    IN  [vecClus |-> r.vecClustList, vecVec |-> r.vecVecList]

\* VectorClusterExpansion.indexVclus2Clus: Vclus2Clus, an array of zeros in
\* which the last orbit whose first cluster equals the first cluster of the
\* vector list is written
indexVclus2Clus(SpecClusters, vecClus) ==
    [v \in 0..(Len(vecClus) - 1) |->
        LET found == {c \in 0..(Len(SpecClusters) - 1) :
                        ClusterEq(vecClus[v + 1][1], SpecClusters[c + 1][1])}
        IN  IF found = {} THEN 0
            ELSE CHOOSE c \in found : \A d \in found : d <= c]

\* self.vacSpec and the translation of self.vacSite
vacSpec == NSpec - 1
vacSite == 0

\* the jumps of the vacancy: the translations Rj of the end sites (the
\* jumpnetwork holds the jump to each of the two neighbours of the chain)
JumpEnds == <<1, -1>>

\* the keys the two dictionaries of GetTransActiveClusts are read with
TransKeys == {<<R, sp>> : R \in {vacSite} \cup Range(JumpEnds), sp \in 0..(NSpec - 1)}

\* the three nested loops over self.vecClus, a list of it and
\* clust.SiteSpecs (lines 293-295 and 330-332), as the list of what they
\* visit
Visits(vecClus, vecVec, rev) ==
    Flatten(List([v \in 1..Len(vecClus) |->
        Flatten(List([c \in 1..Len(vecClus[v]) |->
            LET pairs == IterSiteSpecs(vecClus[v][c], rev)
            IN  List([q \in 1..Len(pairs) |->
                    [vclusListInd |-> v - 1, clInd |-> c - 1,
                     pairs |-> pairs, site |-> pairs[q][1], spec |-> pairs[q][2],
                     vec |-> vecVec[v][c]]])]))]))

\* [vclusListInd, clInd, transSites, transSiteInds, vec, Rt]
ClusterTup(n, visit, Rt) ==
    [vclusListInd |-> visit.vclusListInd,
     clInd |-> visit.clInd,
     transSites |-> List([q \in 1..Len(visit.pairs) |->
                        <<visit.pairs[q][1] + Rt, visit.pairs[q][2]>>]),
     transSiteInds |-> List([q \in 1..Len(visit.pairs) |->
                        <<SupIndex(n, visit.pairs[q][1] + Rt), visit.pairs[q][2]>>]),
     vec |-> visit.vec,
     Rt |-> Rt]

\* the clusters that hold the vacancy site (lines 293-309);
\* st = [t, On, Off]
RECURSIVE VacSiteLoop(_, _, _)
VacSiteLoop(n, visits, st) ==
    IF st.t > Len(visits) THEN st
    ELSE LET visit == visits[st.t]
             tup == ClusterTup(n, visit, vacSite - visit.site)
         IN  VacSiteLoop(n, visits,
                 IF visit.spec = vacSpec
                 THEN [t |-> st.t + 1, On |-> st.On,
                       Off |-> [st.Off EXCEPT ![<<vacSite, vacSpec>>] = Append(@, tup)]]
                 ELSE [t |-> st.t + 1, Off |-> st.Off,
                       On |-> [st.On EXCEPT ![<<vacSite, visit.spec>>] = Append(@, tup)]])

\* the clusters that hold the end site of a jump (lines 330-353);
\* st = [t, On, Off]
RECURSIVE EndSiteLoop(_, _, _, _)
EndSiteLoop(n, visits, siteB, st) ==
    IF st.t > Len(visits) THEN st
    ELSE LET visit == visits[st.t]
             tup == ClusterTup(n, visit, siteB - visit.site)
         IN  EndSiteLoop(n, visits, siteB,
                 IF visit.spec # vacSpec
                 THEN IF <<vacSite, vacSpec>> \notin Range(tup.transSites)
                      THEN [t |-> st.t + 1, On |-> st.On,
                            Off |-> [st.Off EXCEPT ![<<siteB, visit.spec>>] = Append(@, tup)]]
                      ELSE [st EXCEPT !.t = st.t + 1]
                 ELSE IF vacSite \notin {tup.transSites[q][1] : q \in DOMAIN tup.transSites}
                      THEN [t |-> st.t + 1, Off |-> st.Off,
                            On |-> [st.On EXCEPT ![<<siteB, vacSpec>>] = Append(@, tup)]]
                      ELSE [st EXCEPT !.t = st.t + 1])

\* for jump in the jumps of the network (lines 311-353);
\* st = [j, ijList, dxList, On, Off]
RECURSIVE JumpLoop(_, _, _)
JumpLoop(n, visits, st) ==
    IF st.j > Len(JumpEnds) THEN st
    ELSE LET siteB == JumpEnds[st.j]
             r == EndSiteLoop(n, visits, siteB, [t |-> 1, On |-> st.On, Off |-> st.Off])
         IN  JumpLoop(n, visits,
                 [j |-> st.j + 1,
                  ijList |-> Append(st.ijList,
                                [indA |-> SupIndex(n, vacSite), siteA |-> vacSite,
                                 indB |-> SupIndex(n, siteB), siteB |-> siteB]),
                  dxList |-> Append(st.dxList, <<siteB, 0, 0>>),
                  On |-> r.On, Off |-> r.Off])

\* VectorClusterExpansion.GetTransActiveClusts; a key that was never
\* written reads as the empty list (defaultdict)
GetTransActiveClusts(n, vecClus, vecVec, rev) ==
    LET visits == Visits(vecClus, vecVec, rev)
        empty == [key \in TransKeys |-> << >>]
        r0 == VacSiteLoop(n, visits, [t |-> 1, On |-> empty, Off |-> empty])
        r == JumpLoop(n, visits, [j |-> 1, ijList |-> << >>, dxList |-> << >>,
                                  On |-> r0.On, Off |-> r0.Off])
    IN  [ijList |-> r.ijList, dxList |-> r.dxList,
         clustersOn |-> r.On, clustersOff |-> r.Off]

\* ------------------------------------------------------------- Expand
\* The arrays Expand works on: the caller's mobOccs and the local
\* mobOccs_final; shared tells whether the two names are one array.
\* a copy that hands back the array itself
SameArray(mem) ==
    [mobOccs |-> mem.mobOccs, mobOccs_final |-> mem.mobOccs, shared |-> TRUE]

\* mobOccs_final = mobOccs.copy() (line 248): a new array with the values
\* of mobOccs
ArrayCopy(mem) ==
    [mobOccs |-> mem.mobOccs, mobOccs_final |-> mem.mobOccs, shared |-> FALSE]

\* mobOccs_final[spec][site] = val (lines 249-252)
Store(mem, spec, site, val) ==
    [mobOccs_final |-> [mem.mobOccs_final EXCEPT ![spec][site] = val],
     mobOccs |-> IF mem.shared THEN [mem.mobOccs EXCEPT ![spec][site] = val]
                 ELSE mem.mobOccs,
     shared |-> mem.shared]

\* all([occ[spec][siteInd] == 1 for siteInd, spec in clusterTup[3]])
TupOn(occ, clusterTup) ==
    \A q \in DOMAIN clusterTup.transSiteInds :
        occ[clusterTup.transSiteInds[q][2]][clusterTup.transSiteInds[q][1]] = 1

\* for clusterTup in ...: the loop over the clusters to switch off
\* (sign = -1, lines 254-258) or on (sign = 1, lines 261-265);
\* st = [t, del_lamb, delE]
RECURSIVE ExpandTupLoop(_, _, _, _, _, _)
ExpandTupLoop(tups, occ, EnCoeffs, Vclus2Clus, sign, st) ==
    IF st.t > Len(tups) THEN st
    ELSE LET clusterTup == tups[st.t]
         IN  ExpandTupLoop(tups, occ, EnCoeffs, Vclus2Clus, sign,
                 IF TupOn(occ, clusterTup)
                 THEN [t |-> st.t + 1,
                       del_lamb |-> [st.del_lamb EXCEPT ![clusterTup.vclusListInd] =
                                        VecAdd(@, VecScale(sign, clusterTup.vec))],
                       delE |-> st.delE + sign * EnCoeffs[Vclus2Clus[clusterTup.vclusListInd]]]
                 ELSE [st EXCEPT !.t = st.t + 1])

\* for (jnum, ij, dx) in zip(itertools.count(), self.ijList, self.dxList)
\* (lines 231-274); st = [jnum, mem, raised, terms].  A term holds what
\* the jump adds to Wbar and Bbar: del_lamb, dx and rate2, twice the
\* exponent (0.5*delE + delEKRA)*beta of the rate.
RECURSIVE ExpandLoop(_, _, _, _, _)
ExpandLoop(v, beta, EnCoeffs, KRACoeffs, st) ==
    IF st.jnum > Len(v.ijList) \/ st.raised # "none" THEN st
    ELSE LET ij == v.ijList[st.jnum]
             occ == st.mem.mobOccs
             specJ == SumSeq([label \in 1..NSpec |-> occ[label - 1][ij.indB] * (label - 1)])
             key == <<ij.indA, ij.indB, specJ>>
             kra == GetKRA(v.KRAexpander, key, occ, KRACoeffs[key])
             m1 == ArrayCopy(st.mem)
             m2 == Store(m1, NSpec - 1, ij.indA, 0)
             m3 == Store(m2, NSpec - 1, ij.indB, 1)
             m4 == Store(m3, specJ, ij.indA, 1)
             m5 == Store(m4, specJ, ij.indB, 0)
             off == ExpandTupLoop(v.clustersOff[<<vacSite, vacSpec>>] \o
                                  v.clustersOff[<<ij.siteB, specJ>>],
                                  m5.mobOccs, EnCoeffs, v.Vclus2Clus, -1,
                                  [t |-> 1, delE |-> 0,
                                   del_lamb |-> [i \in 0..(Len(v.vecClus) - 1) |-> Zeros3]])
             on == ExpandTupLoop(v.clustersOn[<<ij.siteB, vacSpec>>] \o
                                 v.clustersOn[<<vacSite, specJ>>],
                                 m5.mobOccs_final, EnCoeffs, v.Vclus2Clus, 1,
                                 [t |-> 1, delE |-> off.delE, del_lamb |-> off.del_lamb])
             stop(err) == [st EXCEPT !.raised = err]
         IN  ExpandLoop(v, beta, EnCoeffs, KRACoeffs,
                 IF ij.siteA # vacSite THEN stop("ValueError")
                 ELSE IF key \notin DOMAIN KRACoeffs THEN stop("KeyError")
                 ELSE IF kra.raised # "none" THEN stop(kra.raised)
                 ELSE IF occ[specJ][ij.indB] # 1 THEN stop("AssertionError")
                 ELSE [jnum |-> st.jnum + 1,
                       mem |-> m5,
                       raised |-> "none",
                       terms |-> Append(st.terms,
                                    [delE |-> on.delE, delEKRA |-> kra.DelEKRA,
                                     rate2 |-> (on.delE + 2 * kra.DelEKRA) * beta,
                                     del_lamb |-> on.del_lamb,
                                     dx |-> v.dxList[st.jnum]])])

\* VectorClusterExpansion.Expand: what the call raises, the terms of Wbar
\* and Bbar (lines 276-277 sum them), and the caller's mobOccs after it
Expand(v, beta, mobOccs, EnCoeffs, KRACoeffs) ==
    LET r == ExpandLoop(v, beta, EnCoeffs, KRACoeffs,
                 [jnum |-> 1, raised |-> "none", terms |-> << >>,
                  mem |-> [mobOccs |-> mobOccs, mobOccs_final |-> mobOccs,
                           shared |-> FALSE]])
    IN  [raised |-> r.raised, terms |-> r.terms, mobOccs |-> r.mem.mobOccs]

\* ------------------------------------------------------------------ inputs
\* mobCountList: the number of atoms of each species in a supercell of n sites
MobCountLists(n) ==
    {m \in [0..(NSpec - 1) -> 0..n] :
        SumSeq([k \in 1..NSpec |-> m[k - 1]]) = n}

\* the occupations that hold mobCountList[sp] atoms of every species sp
Occupations(n, mobCountList) ==
    {o \in [0..(n - 1) -> 0..(NSpec - 1)] :
        \A sp \in 0..(NSpec - 1) :
            Cardinality({s \in 0..(n - 1) : o[s] = sp}) = mobCountList[sp]}

\* The arrays handed to MCSampler are those of makeJitInteractionsData, or
\* the same interactions with the per-(site, species) lists a caller built
\* itself: every interaction listed, in the order of its id, under each of
\* its (site, species) members.
KeyInteractions(c, s, sp) ==
    {i \in DOMAIN c.numSitesInteracts :
        \E k \in 0..(c.numSitesInteracts[i] - 1) :
            c.SupSitesInteracts[i][k] = s /\ c.SpecOnInteractSites[i][k] = sp}

CallerLists(c, n) ==
    LET S(s, sp) == KeyInteractions(c, s, sp)
        width == CHOOSE w \in 0..Cardinality(DOMAIN c.numSitesInteracts) :
                    /\ \A s \in 0..(n - 1), sp \in 0..(NSpec - 1) : Cardinality(S(s, sp)) <= w
                    /\ \/ w = 0
                       \/ \E s \in 0..(n - 1), sp \in 0..(NSpec - 1) : Cardinality(S(s, sp)) = w
    IN  [c EXCEPT
            !.numInteractsSiteSpec =
                [s \in 0..(n - 1) |-> [sp \in 0..(NSpec - 1) |-> Cardinality(S(s, sp))]],
            !.SiteSpecInterArray =
                [s \in 0..(n - 1) |-> [sp \in 0..(NSpec - 1) |-> [k \in 0..(width - 1) |->
                    IF k < Cardinality(S(s, sp))
                    THEN CHOOSE i \in S(s, sp) : Cardinality({x \in S(s, sp) : x < i}) = k
                    ELSE -1]]]]

\* The Energies argument of makeJitInteractionsData: makeMCsweep uses the
\* entries of Interaction2En as positions in its own Energies (line 624), so
\* the catalog is built with the vector (0, 1, ...) that names, for every
\* orbit of clusters, its position ("get the energy index here", line 474).
EnergySlots(numOrbits) == [l \in 0..(numOrbits - 1) |-> l]

\* the Energies vectors tried: orbit l has coefficient l+1, or -(l+1)
EnergyVectors(numOrbits) ==
    {[l \in 0..(numOrbits - 1) |-> sgn * (l + 1)] : sgn \in {1, -1}}

Betas == (-1)..MaxBeta

None == [none |-> TRUE]

\* cluster.makeTSclusters(sup.crys, chem, jumpnetwork, clusexp): the
\* transition-state clusters of the two jumps of the chain, as lists of
\* symmetry-related clusters: the jump alone, the jump with one more site
\* next to either end, or both
TSClusterChoices ==
    LET bare == << << <<0, 1>>, <<0, -1>> >> >>
        more == << << <<0, 1, 2>>, <<0, -1, -2>> >>,
                   << <<0, 1, -1>>, <<0, -1, 1>> >> >>
    IN  {bare, more, bare \o more}

\* mobOccs: the two-dimensional array with mobOccs[sp][s] = 1 where site s
\* holds species sp and 0 elsewhere
OneHot(n, o) ==
    [sp \in 0..(NSpec - 1) |-> [s \in 0..(n - 1) |-> IF o[s] = sp THEN 1 ELSE 0]]

MobOccArrays(n) == {OneHot(n, o) : o \in [0..(n - 1) -> 0..(NSpec - 1)]}

\* the KRA coefficients given for a transition with len groups: one too
\* few, as many, or one too many
KRACoeffLists(len) ==
    {[k \in 1..m |-> sgn * k] : m \in {len - 1, len, len + 1} \cap Nat, sgn \in {1, -1}}

\* the KRACoeffs dictionary of Expand: a list for every transition of the
\* expander, each of the length of the transition's groups or each one
\* longer
KRACoeffDicts(kra) ==
    {[key \in DOMAIN kra.clusterSpeciesJumps |->
         [k \in 1..(Len(kra.clusterSpeciesJumps[key]) + more) |-> k]] :
        more \in {0, 1}}

\* the sequences over S of at most n entries
SeqsUpTo(S, n) == UNION {[1..k -> S] : k \in 0..n}

\* the translations of the sites handed to ClusterSpecies directly
SiteInputs == (-MaxR)..MaxR

\* the isinstance results of a site list: every entry a ClusterSite, or one
\* entry some other object
TypeFlags(len) ==
    {[k \in 1..len |-> TRUE]} \cup
    {[k \in 1..len |-> k # bad] : bad \in 1..len}

\* the argument lists a constructor call completes with
ValidArgs ==
    {[specList |-> sl, siteList |-> tl] :
        sl \in SeqsUpTo(0..(NSpec - 1), MaxArgLen),
        tl \in SeqsUpTo(SiteInputs, MaxArgLen)} \ 
    {a \in [specList : SeqsUpTo(0..(NSpec - 1), MaxArgLen),
             siteList : SeqsUpTo(SiteInputs, MaxArgLen)] :
        Len(a.specList) # Len(a.siteList) \/ Len(a.siteList) = 0}

\* ------------------------------------------------------------------- state
VARIABLES
    pc,       \* where the program is: "vce", "jit", "idle", "select", "on", "decide"
    vce,      \* the VectorClusterExpansion object
    cat,      \* the arrays returned by makeJitInteractionsData
    sampler,  \* the MCSampler object: the arrays it was given, mobOcc, OffSiteCount
    sw,       \* the arguments and locals of the running makeMCsweep
    hist,     \* the values a trial started from and passed through
    ret       \* what the last makeMCsweep returned

vars == <<pc, vce, cat, sampler, sw, hist, ret>>

\* VectorClusterExpansion.__init__ has run (lines 64-78)
Init ==
    /\ pc = "vce"
    /\ \E n \in 1..MaxSites, rev \in BOOLEAN :
         \E mobCountList \in MobCountLists(n) :
           LET SpecClusters == recalcClusters(mobCountList, rev)
               gen == generateSiteSpecInteracts(n, SpecClusters, rev)
           IN  vce = [Nsites |-> n, mobCountList |-> mobCountList, rev |-> rev,
                      SpecClusters |-> SpecClusters,
                      SiteSpecInteractions |-> gen.SiteSpecInteractions,
                      maxInteractCount |-> gen.maxInteractCount]
    /\ cat = None
    /\ sampler = None
    /\ sw = None
    /\ hist = None
    /\ ret = None

MakeJitInteractionsData ==
    /\ pc = "vce"
    /\ cat' = makeJitInteractionsData(vce.Nsites, vce.SpecClusters,
                                      vce.SiteSpecInteractions, vce.maxInteractCount,
                                      EnergySlots(Len(vce.SpecClusters)))
    /\ pc' = "jit"
    /\ UNCHANGED <<vce, sampler, sw, hist, ret>>

\* MCSampler(..., Nspec, mobOcc) (lines 569-594)
NewSampler ==
    /\ pc = "jit"
    /\ \E mobOcc \in Occupations(vce.Nsites, vce.mobCountList),
          arrays \in {cat, CallerLists(cat, vce.Nsites)} :
         sampler' = [numSitesInteracts    |-> arrays.numSitesInteracts,
                     SupSitesInteracts    |-> arrays.SupSitesInteracts,
                     SpecOnInteractSites  |-> arrays.SpecOnInteractSites,
                     Interaction2En       |-> arrays.Interaction2En,
                     numInteractsSiteSpec |-> arrays.numInteractsSiteSpec,
                     SiteSpecInterArray   |-> arrays.SiteSpecInterArray,
                     Nsites               |-> vce.Nsites,
                     mobOcc               |-> mobOcc,
                     OffSiteCount         |-> InitOffSiteCount(arrays, mobOcc)]
    /\ pc' = "idle"
    /\ UNCHANGED <<vce, cat, sw, hist, ret>>

\* makeMCsweep is called (lines 604-611)
\* a sweep that works on the sampler's own arrays
Aliased(stored, written) == written

\* what an array of the sampler holds after the sweep has stored into its
\* own array: lines 604-607 made the sweep's arrays with .copy(), so the
\* stores of lines 626, 630, 634, 639 and 648-650 do not reach the sampler
Copied(stored, written) == stored

StartSweep ==
    /\ pc = "idle"
    /\ \E NswapTrials \in 1..MaxTrials, beta \in Betas,
          Energies \in EnergyVectors(Len(vce.SpecClusters)) :
         sw' = [NswapTrials |-> NswapTrials, beta |-> beta, Energies |-> Energies,
                mobOcc |-> sampler.mobOcc,
                OffSiteCountOld |-> sampler.OffSiteCount,
                OffSiteCountNew |-> sampler.OffSiteCount,
                count |-> 0, siteA |-> -1, siteB |-> -1, delE |-> 0,
                rand |-> -1, accepted |-> FALSE]
    /\ hist' = None
    /\ ret' = None
    /\ pc' = "select"
    /\ UNCHANGED <<vce, cat, sampler>>

\* siteA == siteB: continue (lines 614-617)
Redraw ==
    /\ pc = "select"
    /\ sw.count < sw.NswapTrials
    /\ \E siteA \in 0..(sampler.Nsites - 1) : \E siteB \in {siteA} :
         UNCHANGED <<pc, vce, cat, sampler, sw, hist, ret>>

\* two distinct sites are drawn and switched off (lines 614-630)
TurnOff ==
    /\ pc = "select"
    /\ sw.count < sw.NswapTrials
    /\ \E siteA \in 0..(sampler.Nsites - 1), siteB \in 0..(sampler.Nsites - 1) :
         /\ siteA # siteB
         /\ LET st1 == TurnOffLoop(sampler, sw.Energies, sw.OffSiteCountOld,
                                   siteA, sw.mobOcc[siteA],
                                   [interIdx |-> 0, delE |-> 0,
                                    New |-> sw.OffSiteCountNew])
                st2 == TurnOffLoop(sampler, sw.Energies, sw.OffSiteCountOld,
                                   siteB, sw.mobOcc[siteB],
                                   [interIdx |-> 0, delE |-> st1.delE, New |-> st1.New])
            IN  /\ sw' = [sw EXCEPT !.siteA = siteA, !.siteB = siteB,
                                   !.delE = st2.delE, !.OffSiteCountNew = st2.New]
                /\ hist' = [occStart |-> sw.mobOcc, offStart |-> sw.OffSiteCountNew]
    /\ pc' = "on"
    /\ sampler' = [sampler EXCEPT !.OffSiteCount = Copied(@, sw'.OffSiteCountNew)]
    /\ UNCHANGED <<vce, cat, ret>>

\* the two sites are switched on with each other's species (lines 633-641)
TurnOn ==
    /\ pc = "on"
    /\ LET st3 == TurnOnLoop(sampler, sw.Energies, sw.siteA, sw.mobOcc[sw.siteB],
                             sw.siteB, sw.mobOcc[sw.siteB],
                             [interIdx |-> 0, delE |-> sw.delE,
                              New |-> sw.OffSiteCountNew])
           st4 == TurnOnLoop(sampler, sw.Energies, sw.siteB, sw.mobOcc[sw.siteA],
                             sw.siteB, sw.mobOcc[sw.siteB],
                             [interIdx |-> 0, delE |-> st3.delE, New |-> st3.New])
       IN  /\ sw' = [sw EXCEPT !.delE = st4.delE, !.OffSiteCountNew = st4.New]
           /\ hist' = [occStart |-> hist.occStart, offStart |-> hist.offStart,
                       delEOff |-> sw.delE, offOff |-> sw.OffSiteCountNew]
    /\ pc' = "decide"
    /\ sampler' = [sampler EXCEPT !.OffSiteCount = Copied(@, sw'.OffSiteCountNew)]
    /\ UNCHANGED <<vce, cat, ret>>

\* the selection test with randarr[count] (lines 644-655)
Decide ==
    /\ pc = "decide"
    /\ \E k \in 0..(UDen - 1) :
         LET accept == AcceptTest(sw.beta, sw.delE, k)
         IN  /\ sw' = [sw EXCEPT
                     !.rand = k,
                     !.accepted = accept,
                     !.OffSiteCountOld = IF accept THEN sw.OffSiteCountNew ELSE @,
                     !.mobOcc = IF accept THEN SwapSites(@, sw.siteA, sw.siteB) ELSE @,
                     !.OffSiteCountNew = IF accept THEN @
                                         ELSE RevertCounts(sw.OffSiteCountOld, @),
                     !.count = @ + 1]
             /\ hist' = [occStart |-> hist.occStart, offStart |-> hist.offStart,
                         offLoop |-> sw.OffSiteCountNew]
    /\ pc' = "select"
    /\ sampler' = [sampler EXCEPT !.mobOcc = Copied(@, sw'.mobOcc)]
    /\ UNCHANGED <<vce, cat, ret>>

\* return mobOcc, OffSiteCountNew (line 657)
Return ==
    /\ pc = "select"
    /\ sw.count >= sw.NswapTrials
    /\ ret' = [mobOcc |-> sw.mobOcc, OffSiteCountNew |-> sw.OffSiteCountNew]
    /\ sw' = None
    /\ hist' = None
    /\ pc' = "idle"
    /\ UNCHANGED <<vce, cat, sampler>>

Next ==
    \/ MakeJitInteractionsData
    \/ NewSampler
    \/ StartSweep
    \/ Redraw
    \/ TurnOff
    \/ TurnOn
    \/ Decide
    \/ Return

Spec == Init /\ [][Next]_vars

\* The sweep is one thread that runs on: the loops after a draw, the
\* selection test and the return are taken when they are enabled, and the
\* random draws of lines 614-615 do not give equal sites for ever while two
\* different sites exist.
SpecFair ==
    /\ Init
    /\ [][Next]_vars
    /\ WF_vars(TurnOff)
    /\ WF_vars(TurnOn)
    /\ WF_vars(Decide)
    /\ WF_vars(Return)

\* ------------------------------------------------- transport expansion
\* VectorClusterExpansion.__init__ to its end (lines 55-90): the vector
\* basis, the clusters of the jumps and the KRA expander.
InitTransport ==
    /\ pc = "built"
    /\ \E n \in 1..MaxTransportSites, rev \in BOOLEAN, TSClusters \in TSClusterChoices :
         \E mobCountList \in MobCountLists(n) :
           LET SpecClusters == recalcClusters(mobCountList, rev)
               gen == generateSiteSpecInteracts(n, SpecClusters, rev)
               basis == genVecClustBasis(SpecClusters)
               trans == GetTransActiveClusts(n, basis.vecClus, basis.vecVec, rev)
           IN  vce = [Nsites |-> n, mobCountList |-> mobCountList, rev |-> rev,
                      SpecClusters |-> SpecClusters,
                      SiteSpecInteractions |-> gen.SiteSpecInteractions,
                      maxInteractCount |-> gen.maxInteractCount,
                      vecClus |-> basis.vecClus,
                      vecVec |-> basis.vecVec,
                      Vclus2Clus |-> indexVclus2Clus(SpecClusters, basis.vecClus),
                      ijList |-> trans.ijList,
                      dxList |-> trans.dxList,
                      clustersOn |-> trans.clustersOn,
                      clustersOff |-> trans.clustersOff,
                      KRAexpander |-> KRAExpand(n, mobCountList, TSClusters, rev)]
    /\ cat = None
    /\ sampler = None
    /\ sw = None
    /\ hist = None
    /\ ret = None

\* a caller asks the expander for the KRA energy of a transition
CallGetKRA ==
    /\ pc = "built"
    /\ \E transition \in DOMAIN vce.KRAexpander.clusterSpeciesJumps
                          \cup {<<0, 0, vacSpec>>},
          mobOcc \in MobOccArrays(vce.Nsites) :
         \E KRACoeffs \in KRACoeffLists(
                IF transition \in DOMAIN vce.KRAexpander.clusterSpeciesJumps
                THEN Len(vce.KRAexpander.clusterSpeciesJumps[transition]) ELSE 0) :
           /\ sw' = [transition |-> transition, mobOcc |-> mobOcc,
                     KRACoeffs |-> KRACoeffs]
           /\ ret' = GetKRA(vce.KRAexpander, transition, mobOcc, KRACoeffs)
    /\ pc' = "kra"
    /\ UNCHANGED <<vce, cat, sampler, hist>>

\* a caller asks for the rate and bias expansions of a state
CallExpand ==
    /\ pc = "built"
    /\ \E beta \in Betas, mobOccs \in MobOccArrays(vce.Nsites),
          EnCoeffs \in EnergyVectors(Len(vce.SpecClusters)),
          KRACoeffs \in KRACoeffDicts(vce.KRAexpander) :
         LET r == Expand(vce, beta, mobOccs, EnCoeffs, KRACoeffs)
         IN  /\ sw' = [beta |-> beta, mobOccs |-> mobOccs, EnCoeffs |-> EnCoeffs,
                       KRACoeffs |-> KRACoeffs]
             /\ ret' = [raised |-> r.raised, terms |-> r.terms]
             /\ hist' = [mobOccs |-> r.mobOccs]
    /\ pc' = "expanded"
    /\ UNCHANGED <<vce, cat, sampler>>

NextTransport ==
    \/ CallGetKRA
    \/ CallExpand

SpecTransport == InitTransport /\ [][NextTransport]_vars

\* ------------------------------------------- ClusterSpecies called alone
\* A caller builds decorated clusters from its own lists.  sw holds the
\* arguments of the first call and the hash seed of the interpreter, ret
\* what the first call produced, hist what a second call produced.
InitClusterSpecies ==
    /\ pc = "call"
    /\ \E specList \in SeqsUpTo(0..(NSpec - 1), MaxArgLen),
          siteList \in SeqsUpTo(SiteInputs, MaxArgLen),
          seed \in 1..MaxSeed :
          \E isSite \in TypeFlags(Len(siteList)) :
              sw = [specList |-> specList, siteList |-> siteList,
                    isSite |-> isSite, seed |-> seed]
    /\ vce = None
    /\ cat = None
    /\ sampler = None
    /\ hist = None
    /\ ret = None

\* ClusterSpecies.__init__ on the arguments of sw
NewClusterSpecies ==
    /\ pc = "call"
    /\ LET raised == ConstructionError(sw.specList, sw.siteList, sw.isSite)
       IN  ret' = [raised |-> raised,
                   obj    |-> IF raised = "none"
                              THEN ClusterSpecies(sw.specList, sw.siteList)
                              ELSE None]
    /\ pc' = "made"
    /\ UNCHANGED <<vce, cat, sampler, sw, hist>>

\* ClusterSpecies.__init__ on a second argument list
OtherClusterSpecies ==
    /\ pc = "made"
    /\ ret.raised = "none"
    /\ \E a \in ValidArgs :
          hist' = [obj |-> ClusterSpecies(a.specList, a.siteList)]
    /\ pc' = "two"
    /\ UNCHANGED <<vce, cat, sampler, sw, ret>>

\* ClusterSpecies.__init__ on the species and the translated sites of the
\* first cluster
RebuildClusterSpecies ==
    /\ pc = "made"
    /\ ret.raised = "none"
    /\ hist' = [obj |-> ClusterSpecies(ret.obj.specList,
                     List([k \in 1..Len(ret.obj.transPairs) |->
                              ret.obj.transPairs[k][1]]))]
    /\ pc' = "again"
    /\ UNCHANGED <<vce, cat, sampler, sw, ret>>

NextClusterSpecies ==
    \/ NewClusterSpecies
    \/ OtherClusterSpecies
    \/ RebuildClusterSpecies

SpecClusterSpecies == InitClusterSpecies /\ [][NextClusterSpecies]_vars

\* ------------------------------------------------------------- properties
\* the interaction ids of the sampler
Interactions == DOMAIN sampler.numSitesInteracts

\* the number of members of interaction i whose site does not hold the
\* required species in occupation occ
Mismatches(c, occ, i) ==
    Cardinality({k \in 0..(c.numSitesInteracts[i] - 1) :
                    occ[c.SupSitesInteracts[i][k]] # c.SpecOnInteractSites[i][k]})

\* the sampler holds the lists makeJitInteractionsData produced
FromCatalog ==
    /\ sampler.numInteractsSiteSpec = cat.numInteractsSiteSpec
    /\ sampler.SiteSpecInterArray = cat.SiteSpecInterArray

\* C8: right after construction OffSiteCount[i] is the number of members
\* (site, species) of interaction i whose site holds another species in the
\* initial occupation; it is 0 exactly when every member matches.
C8_InitialCounts ==
    (pc = "idle" /\ ret = None) =>
        \A i \in Interactions :
            /\ sampler.OffSiteCount[i] = Mismatches(sampler, sampler.mobOcc, i)
            /\ (sampler.OffSiteCount[i] = 0) <=>
                   (\A k \in 0..(sampler.numSitesInteracts[i] - 1) :
                       sampler.mobOcc[sampler.SupSitesInteracts[i][k]]
                           = sampler.SpecOnInteractSites[i][k])

\* a sampler with an interaction that is on, one with a single mismatch
\* among two members, and one with both members mismatched
C8_MixedCounts ==
    /\ pc = "idle" /\ ret = None
    /\ \E i \in Interactions : sampler.OffSiteCount[i] = 0
    /\ \E i \in Interactions :
           sampler.numSitesInteracts[i] = 2 /\ sampler.OffSiteCount[i] = 1
    /\ \E i \in Interactions :
           sampler.numSitesInteracts[i] = 2 /\ sampler.OffSiteCount[i] = 2

\* C10: every interaction that has (site, species) among its members is
\* listed under the key (site, species) of the generated catalog.
C10_CatalogComplete ==
    (pc # "vce") =>
        \A s \in 0..(vce.Nsites - 1), sp \in 0..(NSpec - 1) :
            \A i \in KeyInteractions(cat, s, sp) :
                \E k \in 0..(cat.numInteractsSiteSpec[s][sp] - 1) :
                    cat.SiteSpecInterArray[s][sp][k] = i

\* the positions of the list stored for (site, sp)
Slots(site, sp) == 0..(sampler.numInteractsSiteSpec[site][sp] - 1)

\* how many times interaction i is listed for (site, sp)
Listed(site, sp, i) ==
    Cardinality({k \in Slots(site, sp) : sampler.SiteSpecInterArray[site][sp][k] = i})

\* the energy coefficient of interaction i
Coefficient(i) == sw.Energies[sampler.Interaction2En[i]]

\* the coefficients of the interactions listed at the first n positions of
\* (site, sp) that have count 0 in counts
RECURSIVE OnCoefficients(_, _, _, _)
OnCoefficients(counts, site, sp, n) ==
    IF n = 0 THEN 0
    ELSE LET i == sampler.SiteSpecInterArray[site][sp][n - 1]
         IN  OnCoefficients(counts, site, sp, n - 1)
                 + (IF counts[i] = 0 THEN Coefficient(i) ELSE 0)

\* a trial of the sweep has just ended
TrialEnded == pc = "select" /\ sw.count > 0

\* C3: after a rejected trial the occupation is the one the trial started
\* from, and every offsite count has the value it had when the trial began.
C3_RejectRestores ==
    (TrialEnded /\ ~sw.accepted) =>
        /\ sw.mobOcc = hist.occStart
        /\ sw.OffSiteCountNew = hist.offStart

\* a rejected trial whose loops had changed the counts
C3_RejectedAfterChange ==
    /\ TrialEnded /\ ~sw.accepted
    /\ hist.offLoop # hist.offStart

\* C4: after an accepted trial the species of siteA and siteB are exchanged
\* and every other site is as before, the counts carried on are those the
\* four loops produced; while the loops run and after a rejected trial the
\* occupation is the one the trial started from.
C4_AcceptSwaps ==
    /\ (TrialEnded /\ sw.accepted) =>
           /\ sw.siteA # sw.siteB
           /\ sw.mobOcc[sw.siteA] = hist.occStart[sw.siteB]
           /\ sw.mobOcc[sw.siteB] = hist.occStart[sw.siteA]
           /\ \A s \in DOMAIN sw.mobOcc \ {sw.siteA, sw.siteB} :
                  sw.mobOcc[s] = hist.occStart[s]
           /\ DOMAIN sw.mobOcc = DOMAIN hist.occStart
           /\ sw.OffSiteCountNew = hist.offLoop
           /\ sw.OffSiteCountOld = hist.offLoop
    /\ (pc \in {"on", "decide"} \/ (TrialEnded /\ ~sw.accepted)) =>
           sw.mobOcc = hist.occStart

\* an accepted trial that exchanged two different species and changed counts
C4_AcceptedExchange ==
    /\ TrialEnded /\ sw.accepted
    /\ hist.occStart[sw.siteA] # hist.occStart[sw.siteB]
    /\ hist.offLoop # hist.offStart

\* C5: with u = rand/UDen and beta in units of ln 2, a trial is accepted
\* exactly when 2^(-beta*delE) > u; with beta >= 0 a trial with delE <= 0 is
\* accepted; a trial with delE > 0 and u > 0 is rejected as soon as
\* beta*delE >= log2(1/u), hence for every beta large enough.
C5_AcceptanceRule ==
    TrialEnded =>
        LET n   == sw.beta * sw.delE
            cap == IF n > UDen THEN UDen ELSE n
        IN  /\ sw.accepted <=> (n <= 0 \/ sw.rand * Pow(2, cap) < UDen)
            /\ (sw.beta >= 0 /\ sw.delE <= 0) => sw.accepted
            /\ (sw.delE > 0 /\ sw.rand > 0 /\ n >= UDen) => ~sw.accepted

\* an energy-raising trial at positive beta that was rejected
C5_UphillRejected ==
    /\ TrialEnded /\ ~sw.accepted
    /\ sw.beta > 0 /\ sw.delE > 0 /\ sw.rand > 0

\* C7: when the two switch-off loops are done, delE is minus the sum of the
\* coefficients of the interactions listed for (A, a) and for (B, b) whose
\* count was 0 when the trial began, and every count has grown by the number
\* of times its interaction is listed for (A, a) and for (B, b).
C7_TurnOffRule ==
    (pc = "on") =>
        LET a == sw.mobOcc[sw.siteA]
            b == sw.mobOcc[sw.siteB]
        IN  /\ sw.delE =
                   0 - OnCoefficients(hist.offStart, sw.siteA, a,
                                      sampler.numInteractsSiteSpec[sw.siteA][a])
                     - OnCoefficients(hist.offStart, sw.siteB, b,
                                      sampler.numInteractsSiteSpec[sw.siteB][b])
            /\ \A i \in Interactions :
                   sw.OffSiteCountNew[i] =
                       hist.offStart[i] + Listed(sw.siteA, a, i) + Listed(sw.siteB, b, i)

\* both loops met one and the same interaction that was on when the trial
\* began, and an interaction that was off
C7_SharedInteractionOff ==
    /\ pc = "on"
    /\ \E i \in Interactions :
           /\ hist.offStart[i] = 0
           /\ Listed(sw.siteA, sw.mobOcc[sw.siteA], i) = 1
           /\ Listed(sw.siteB, sw.mobOcc[sw.siteB], i) = 1
    /\ \E i \in Interactions :
           /\ hist.offStart[i] > 0
           /\ Listed(sw.siteA, sw.mobOcc[sw.siteA], i) = 1

\* C9: at the end of every trial every offsite count lies between 0 and the
\* number of sites of its interaction.
C9_CountsInRange ==
    TrialEnded =>
        \A i \in Interactions :
            /\ 0 <= sw.OffSiteCountNew[i]
            /\ sw.OffSiteCountNew[i] <= sampler.numSitesInteracts[i]

\* a trial ended with a count at 0 and a count of a pair at its maximum,
\* after its loops had changed the counts
C9_ExtremeCounts ==
    /\ TrialEnded
    /\ hist.offLoop # hist.offStart
    /\ \E i \in Interactions : sw.OffSiteCountNew[i] = 0
    /\ \E i \in Interactions :
           sampler.numSitesInteracts[i] = 2 /\ sw.OffSiteCountNew[i] = 2

\* C1: between the trials of a sweep of a sampler that holds the generated
\* lists, every offsite count is the number of members of its interaction
\* whose site holds another species in the current occupation.
C1_OffsiteIntegrity ==
    (pc = "select" /\ FromCatalog) =>
        \A i \in Interactions :
            sw.OffSiteCountNew[i] = Mismatches(sampler, sw.mobOcc, i)

\* the sum of the coefficients of the first n interactions whose members all
\* match occupation occ
RECURSIVE StateEnergy(_, _)
StateEnergy(occ, n) ==
    IF n = 0 THEN 0
    ELSE StateEnergy(occ, n - 1)
             + (IF Mismatches(sampler, occ, n - 1) = 0 THEN Coefficient(n - 1) ELSE 0)

\* C2: the delE a trial computed is the energy of the occupation with siteA
\* and siteB exchanged minus the energy of the occupation, the energy being
\* the sum of the coefficients of the interactions whose members all match.
C2_EnergyConservation ==
    (pc = "decide" /\ FromCatalog) =>
        LET swapped == [s \in DOMAIN sw.mobOcc |->
                           IF s = sw.siteA THEN sw.mobOcc[sw.siteB]
                           ELSE IF s = sw.siteB THEN sw.mobOcc[sw.siteA]
                           ELSE sw.mobOcc[s]]
            numInteracts == Cardinality(Interactions)
        IN  sw.delE = StateEnergy(swapped, numInteracts)
                          - StateEnergy(sw.mobOcc, numInteracts)

\* the switch-on loop of (site, sp) as C6 states it: every listed interaction
\* loses one from its count and adds its own coefficient when the count
\* reaches 0; st = [interIdx, delE, New]
RECURSIVE SwitchOnRule(_, _, _)
SwitchOnRule(site, sp, st) ==
    IF st.interIdx >= sampler.numInteractsSiteSpec[site][sp] THEN st
    ELSE LET i == sampler.SiteSpecInterArray[site][sp][st.interIdx]
         IN  SwitchOnRule(site, sp,
                 [interIdx |-> st.interIdx + 1,
                  delE |-> IF st.New[i] - 1 = 0 THEN st.delE + Coefficient(i)
                           ELSE st.delE,
                  New  |-> [st.New EXCEPT ![i] = @ - 1]])

\* C6: when the two switch-on loops are done, the counts of the interactions
\* listed for (A, b) and for (B, a) have each lost one, and delE has grown by
\* the coefficient of every interaction whose count thereby reached 0.
C6_TurnOnRule ==
    (pc = "decide" /\ FromCatalog) =>
        LET a  == sw.mobOcc[sw.siteA]
            b  == sw.mobOcc[sw.siteB]
            r3 == SwitchOnRule(sw.siteA, b,
                      [interIdx |-> 0, delE |-> hist.delEOff, New |-> hist.offOff])
            r4 == SwitchOnRule(sw.siteB, a,
                      [interIdx |-> 0, delE |-> r3.delE, New |-> r3.New])
        IN  /\ sw.OffSiteCountNew = r4.New
            /\ sw.delE = r4.delE

\* the (supercell site, species) members of interaction i of the catalog
CatalogMembers(i) ==
    {<<cat.SupSitesInteracts[i][k], cat.SpecOnInteractSites[i][k]>> :
        k \in 0..(cat.numSitesInteracts[i] - 1)}

\* C11: no two interaction ids of the generated catalog have the same set
\* of (supercell site, species) members.
C11_UniqueByContent ==
    (pc # "vce") =>
        \A i \in DOMAIN cat.numSitesInteracts, j \in DOMAIN cat.numSitesInteracts :
            (i # j) => (CatalogMembers(i) # CatalogMembers(j))

\* the orbits recalcClusters returned
Orbits == DOMAIN vce.SpecClusters

\* C12: the image of every member of every orbit under every group
\* operation is equal to a member of the same orbit.
C12_OrbitClosure ==
    \A l \in Orbits : \A c \in DOMAIN vce.SpecClusters[l] : \A g \in DOMAIN G :
        \E c2 \in DOMAIN vce.SpecClusters[l] :
            ClusterEq(ClusterG(vce.SpecClusters[l][c], G[g]), vce.SpecClusters[l][c2])

\* an orbit of two clusters that the inversion maps onto each other
C12_TwoMemberOrbit ==
    \E l \in Orbits :
        /\ Len(vce.SpecClusters[l]) = 2
        /\ ~ClusterEq(vce.SpecClusters[l][1], vce.SpecClusters[l][2])
        /\ ClusterEq(ClusterG(vce.SpecClusters[l][1], -1), vce.SpecClusters[l][2])

\* C13: no cluster is a member of two orbits and no orbit lists a cluster
\* twice (clusters compared by ClusterSpecies equality).
C13_OrbitsDisjoint ==
    \A l1 \in Orbits, l2 \in Orbits :
        \A c1 \in DOMAIN vce.SpecClusters[l1], c2 \in DOMAIN vce.SpecClusters[l2] :
            ClusterEq(vce.SpecClusters[l1][c1], vce.SpecClusters[l2][c2])
                => (l1 = l2 /\ c1 = c2)

\* several orbits, one of a cluster that the inversion maps onto itself
\* (its two images are equal and it is listed once)
C13_SelfImageOrbit ==
    /\ Cardinality(Orbits) >= 3
    /\ \E l \in Orbits :
           /\ Len(vce.SpecClusters[l]) = 1
           /\ Len(vce.SpecClusters[l][1].siteList) = 2
           /\ vce.SpecClusters[l][1].siteList # ClusterG(vce.SpecClusters[l][1], -1).siteList

\* C14: in every cluster of every orbit the number of sites that hold
\* species sp is at most mobCountList[sp]; the assignments over the budget
\* are left out and the orbits are still returned.
C14_WithinBudget ==
    \A l \in Orbits : \A c \in DOMAIN vce.SpecClusters[l] : \A sp \in 0..(NSpec - 1) :
        Cardinality({k \in DOMAIN vce.SpecClusters[l][c].specList :
                        vce.SpecClusters[l][c].specList[k] = sp}) <= vce.mobCountList[sp]

\* a species with a single atom: the pair that holds it twice is over the
\* budget and absent, the pairs that hold it once are present
C14_BudgetExcludes ==
    \E sp \in 0..(NSpec - 1) :
        /\ vce.mobCountList[sp] = 1
        /\ OverBudget(<<sp, sp>>, vce.mobCountList)
        /\ \E l \in Orbits : \E k \in DOMAIN vce.SpecClusters[l][1].specList :
               /\ Len(vce.SpecClusters[l][1].specList) = 2
               /\ vce.SpecClusters[l][1].specList[k] = sp

\* ------------------------------------------------ ClusterSpecies claims
\* the orders in which n pairs can be listed
Perms(n) == {p \in [1..n -> 1..n] : \A i, j \in 1..n : (p[i] = p[j]) => (i = j)}

\* y lists the pairs of x in the order p, every site shifted by T
ShiftedBy(x, y, p, T) ==
    \A k \in DOMAIN x.siteList :
        /\ y.siteList[k] = x.siteList[p[k]] + T
        /\ y.specList[k] = x.specList[p[k]]

\* C15: a cluster built from the sites of another one, each shifted by the
\* same lattice translation T and listed with their species in any order,
\* compares equal to it.
C15_TranslationInvariance ==
    (pc = "two") =>
        \A T \in (-2 * MaxR)..(2 * MaxR) :
            (/\ Len(hist.obj.siteList) = Len(ret.obj.siteList)
             /\ \E p \in Perms(Len(ret.obj.siteList)) :
                    ShiftedBy(ret.obj, hist.obj, p, T))
            => ClusterEq(ret.obj, hist.obj)

\* two clusters of three sites, the second the first shifted by a nonzero
\* translation and listed in another order, with a negative sum of
\* translations that the number of sites does not divide
C15_ShiftedReordered ==
    /\ pc = "two"
    /\ Len(ret.obj.siteList) = 3
    /\ Len(hist.obj.siteList) = 3
    /\ SumSeq(hist.obj.siteList) < 0
    /\ SumSeq(hist.obj.siteList) % 3 # 0
    /\ \E T \in {-1, 1} : \E p \in Perms(3) :
          /\ \E k \in 1..3 : p[k] # k
          /\ ShiftedBy(ret.obj, hist.obj, p, T)
          /\ hist.obj.siteList # ret.obj.siteList

\* C16: two clusters that compare equal have the same hash.
C16_HashConsistent ==
    (pc = "two" /\ ClusterEq(ret.obj, hist.obj)) =>
        (hashcache(ret.obj, sw.seed) = hashcache(hist.obj, sw.seed))

\* C17: building a cluster from the translated sites and the species of a
\* cluster gives the same pairs again: the floor-divided mean translation of
\* the translated sites is zero.
C17_Idempotent ==
    (pc = "again") =>
        /\ hist.obj.transPairs = ret.obj.transPairs
        /\ SiteSpecs(hist.obj) = SiteSpecs(ret.obj)
        /\ SumSeq(hist.obj.siteList) \div Len(hist.obj.siteList) = 0

\* a cluster rebuilt from translated sites that differ from the sites it was
\* first built from and whose translations do not sum to zero
C17_RebuiltFromShifted ==
    /\ pc = "again"
    /\ ret.obj.siteList # hist.obj.siteList
    /\ SumSeq(hist.obj.siteList) > 0
    /\ SumSeq(ret.obj.siteList) < 0

\* C18: a call whose species list and site list differ in length, or whose
\* site list holds an object that is not a site, raises and produces no
\* cluster.
C18_ConstructionFails ==
    (/\ pc = "made"
     /\ \/ Len(sw.specList) # Len(sw.siteList)
        \/ \E k \in DOMAIN sw.siteList : ~sw.isSite[k])
    => (ret.raised \in {"ValueError", "TypeError"} /\ ret.obj = None)

\* a call with lists of the same length and one entry that is not a site
C18_NonSiteRejected ==
    /\ pc = "made"
    /\ Len(sw.specList) = Len(sw.siteList)
    /\ \E k \in DOMAIN sw.siteList : ~sw.isSite[k]
    /\ ret.raised = "TypeError"
    /\ ret.obj = None

\* ------------------------------------------------------ transport claims
\* the groups registered for the transition of the last GetKRA call
KRAGroups == vce.KRAexpander.clusterSpeciesJumps[sw.transition]

\* the clusters of group idx whose sites other than the two ends of the
\* jump all hold the species the group assigns to them
KRAMatching(idx) ==
    {c \in DOMAIN KRAGroups[idx].clusterList :
        \A k \in DOMAIN KRAGroups[idx].tup :
            sw.mobOcc[KRAGroups[idx].tup[k]]
                     [KRAGroups[idx].clusterList[c][k + 2] % vce.Nsites] = 1}

\* C19: GetKRA with a coefficient sequence whose length is not the number
\* of groups of the transition raises and returns no energy; with the same
\* length it returns the sum over the groups of the group's coefficient
\* times the number of the group's clusters whose other sites all hold the
\* assigned species.
C19_GetKRAContract ==
    (pc = "kra" /\ sw.transition \in DOMAIN vce.KRAexpander.clusterSpeciesJumps) =>
        IF Len(sw.KRACoeffs) # Len(KRAGroups)
        THEN ret.raised = "TypeError" /\ "DelEKRA" \notin DOMAIN ret
        ELSE /\ ret.raised = "none"
             /\ ret.DelEKRA =
                    SumSeq([idx \in 1..Len(KRAGroups) |->
                               sw.KRACoeffs[idx] * Cardinality(KRAMatching(idx))])

\* a call with one coefficient more than the two or more groups of the
\* transition, one of which has a matching cluster
C19_TooManyCoefficients ==
    /\ pc = "kra"
    /\ sw.transition \in DOMAIN vce.KRAexpander.clusterSpeciesJumps
    /\ Len(KRAGroups) >= 2
    /\ Len(sw.KRACoeffs) = Len(KRAGroups) + 1
    /\ \E idx \in 1..Len(KRAGroups) : KRAMatching(idx) # {}
    /\ ret.raised = "TypeError"

\* C20: after Expand returns or raises, the caller's mobOccs holds the
\* values it held before the call.
C20_ExpandKeepsOccupation ==
    (pc = "expanded") => (hist.mobOccs = sw.mobOccs)

\* an Expand that returned after two jumps, each of which changed the
\* energy between mobOccs and mobOccs_final
C20_TwoJumpsExpanded ==
    /\ pc = "expanded"
    /\ ret.raised = "none"
    /\ Len(ret.terms) = 2
    /\ \A j \in 1..2 : ret.terms[j].delE # 0

\* the occupation a one-hot array stands for
OccOf(mobOccs) ==
    [s \in 0..(vce.Nsites - 1) |->
        CHOOSE sp \in 0..(NSpec - 1) : mobOccs[sp][s] = 1]

\* the interactions of the supercell: every cluster of every orbit at every
\* translation, as the orbit and the set of (site index, species) members
SupercellInteractions ==
    UNION {UNION {{<<l, {<<SupIndex(vce.Nsites, p[1] + t), p[2]>> :
                            p \in SiteSpecs(vce.SpecClusters[l][c])}>> :
                      t \in 0..(vce.Nsites - 1)} :
                  c \in DOMAIN vce.SpecClusters[l]} :
           l \in Orbits}

\* the energy of an occupation: the coefficient of its orbit for every
\* interaction of S whose members all hold their species, each once
RECURSIVE EnergyOver(_, _, _)
EnergyOver(S, occ, EnCoeffs) ==
    IF S = {} THEN 0
    ELSE LET x == CHOOSE y \in S : TRUE
         IN  (IF \A m \in x[2] : occ[m[1]] = m[2] THEN EnCoeffs[x[1] - 1] ELSE 0)
                 + EnergyOver(S \ {x}, occ, EnCoeffs)

\* the occupation after the vacancy at indA has exchanged with the atom at
\* indB
AfterJump(occ, ij) ==
    [s \in DOMAIN occ |->
        IF s = ij.indA THEN occ[ij.indB]
        ELSE IF s = ij.indB THEN occ[ij.indA] ELSE occ[s]]

\* C21: for every jump of the vacancy, in a state that holds the atoms of
\* mobCountList with a vacancy on the vacancy site, the delE that Expand puts
\* in the rate is the energy of the occupation after the jump minus the
\* energy of the occupation before it, every interaction of the supercell
\* counted once.
C21_ExpandDeltaE ==
    (/\ pc = "expanded"
     /\ OccOf(sw.mobOccs) \in Occupations(vce.Nsites, vce.mobCountList)
     /\ OccOf(sw.mobOccs)[SupIndex(vce.Nsites, vacSite)] = vacSpec) =>
        \A j \in DOMAIN ret.terms :
            ret.terms[j].delE =
                EnergyOver(SupercellInteractions,
                           AfterJump(OccOf(sw.mobOccs), vce.ijList[j]), sw.EnCoeffs)
                - EnergyOver(SupercellInteractions, OccOf(sw.mobOccs), sw.EnCoeffs)

\* ------------------------------------------------------ sweep claims (2)
\* C22: a sweep that was started returns, on a sampler of any number of
\* sites, when the site draws are fair.
C22_SweepTerminates == (pc = "select") ~> (pc = "idle")

\* ------ catalog claims (2)
\* the interaction ids of the generated catalog
CatalogIds == DOMAIN cat.numSitesInteracts

\* C23: every interaction generateSiteSpecInteracts lists under the key
\* (s, sp) has the pair (s, sp) among its translated members; every slot
\* k < numInteractsSiteSpec[s, sp] of SiteSpecInterArray[s, sp] holds an
\* interaction id in [0, numInteracts), and every slot from
\* numInteractsSiteSpec[s, sp] on holds the padding value -1.
C23_CatalogSound ==
    (pc # "vce") =>
        /\ \A d \in DOMAIN vce.SiteSpecInteractions :
             \A e \in DOMAIN vce.SiteSpecInteractions[d].list :
                vce.SiteSpecInteractions[d].key
                    \in Range(vce.SiteSpecInteractions[d].list[e].interaction)
        /\ \A s \in 0..(vce.Nsites - 1), sp \in 0..(NSpec - 1) :
             /\ \A k \in 0..(cat.numInteractsSiteSpec[s][sp] - 1) :
                  /\ k \in DOMAIN cat.SiteSpecInterArray[s][sp]
                  /\ cat.SiteSpecInterArray[s][sp][k] \in CatalogIds
             /\ \A k \in DOMAIN cat.SiteSpecInterArray[s][sp] :
                  (k >= cat.numInteractsSiteSpec[s][sp]) =>
                      cat.SiteSpecInterArray[s][sp][k] = -1

\* the catalog of a ring of several sites: one key lists a pair interaction
\* that was translated onto its site, another key lists fewer interactions
\* than the array is wide
C23_PaddedCatalog ==
    /\ pc = "jit"
    /\ vce.Nsites >= 2
    /\ \E d \in DOMAIN vce.SiteSpecInteractions :
         \E e \in DOMAIN vce.SiteSpecInteractions[d].list :
            /\ Len(vce.SiteSpecInteractions[d].list[e].interaction) = 2
            /\ vce.SiteSpecInteractions[d].list[e].Rtrans # 0
    /\ \E s \in 0..(vce.Nsites - 1), sp \in 0..(NSpec - 1) :
         /\ cat.numInteractsSiteSpec[s][sp] >= 1
         /\ cat.numInteractsSiteSpec[s][sp] < vce.maxInteractCount
         /\ cat.SiteSpecInterArray[s][sp][vce.maxInteractCount - 1] = -1

\* ------ sweep claims (3)
\* the number of sites of the occupation that hold species sp
SpeciesCount(occ, sp) == Cardinality({s \in DOMAIN occ : occ[s] = sp})

\* the two occupations hold every species on the same number of sites
SameComposition(occ1, occ2) ==
    \A sp \in 0..(NSpec - 1) : SpeciesCount(occ1, sp) = SpeciesCount(occ2, sp)

\* C24: the occupation of a running sweep holds every species on as many
\* sites as the sampler's initial occupation, after every trial, and so
\* does the occupation makeMCsweep returns.
C24_SpeciesConserved ==
    /\ (pc \in {"select", "on", "decide"}) => SameComposition(sw.mobOcc, sampler.mobOcc)
    /\ (pc = "idle" /\ ret # None) => SameComposition(ret.mobOcc, sampler.mobOcc)

\* a sweep returned an occupation that accepted swaps have changed
C24_ReturnedChanged ==
    /\ pc = "idle"
    /\ ret # None
    /\ ret.mobOcc # sampler.mobOcc
    /\ \E sp \in 0..(NSpec - 1) :
         SpeciesCount(sampler.mobOcc, sp) \notin {0, sampler.Nsites}

\* C25: when the two sites drawn hold the same species, the four loops
\* leave delE = 0 and every offsite count at its value before the trial,
\* and the counts keep that value when the trial has been decided, accepted
\* or not.
C25_SameSpeciesSwap ==
    /\ (pc = "decide" /\ hist.occStart[sw.siteA] = hist.occStart[sw.siteB]) =>
          /\ sw.delE = 0
          /\ sw.OffSiteCountNew = hist.offStart
    /\ (TrialEnded /\ hist.occStart[sw.siteA] = hist.occStart[sw.siteB]) =>
          sw.OffSiteCountNew = hist.offStart

\* the state part of C26: at the head of the loop, and so at the return,
\* OffSiteCountNew is the array of the occupation the sweep holds; after a
\* trial the two are those of the accepted swap or those the trial began with
SweepArraysBelong ==
    /\ (pc = "select") => sw.OffSiteCountNew = sw.OffSiteCountOld
    /\ TrialEnded =>
          IF sw.accepted
          THEN /\ sw.mobOcc = SwapSites(hist.occStart, sw.siteA, sw.siteB)
               /\ sw.OffSiteCountNew = hist.offLoop
          ELSE /\ sw.mobOcc = hist.occStart
               /\ sw.OffSiteCountNew = hist.offStart

\* the step part of C26: no step changes the arrays the sampler stores, a
\* sweep starts from them, and it returns the arrays it holds at the end
SweepOnCopies ==
    /\ (sampler # None) =>
          /\ sampler'.mobOcc = sampler.mobOcc
          /\ sampler'.OffSiteCount = sampler.OffSiteCount
    /\ (pc = "idle" /\ pc' = "select") =>
          /\ sw'.mobOcc = sampler.mobOcc
          /\ sw'.OffSiteCountOld = sampler.OffSiteCount
          /\ sw'.OffSiteCountNew = sampler.OffSiteCount
    /\ (pc = "select" /\ pc' = "idle") =>
          /\ ret'.mobOcc = sw.mobOcc
          /\ ret'.OffSiteCountNew = sw.OffSiteCountOld

\* C26: makeMCsweep leaves self.mobOcc and self.OffSiteCount as they were
\* before the call, so that every sweep starts from the arrays of the
\* construction, and the offsite array it returns is the one of the
\* occupation it returns: that of the last accepted trial or the one a
\* rejected trial was restored to, never one the loops have half updated.
C26_WorksOnCopies == [](SweepArraysBelong) /\ [][SweepOnCopies]_vars

\* a sweep with an accepted trial has returned an occupation and an
\* offsite array that differ from the ones the sampler stores
C26_ReturnedAfterReject ==
    /\ pc = "idle"
    /\ ret # None
    /\ ret.mobOcc # sampler.mobOcc
    /\ ret.OffSiteCountNew # sampler.OffSiteCount

====
